---- MODULE Spec2Model ----
(***************************************************************************)
(* huge_memory_bench.cpp: the cached list of random indices                *)
(* (generateIndices, readIndices) and the benchmark driver (main).         *)
(*                                                                         *)
(* Two specifications share the definitions of the index cache:            *)
(*   Spec      calls readIndices repeatedly on one persisted file, with    *)
(*             (endIdx, numIndices) drawn from bounded sets;               *)
(*   MainSpec  runs main repeatedly (option parsing, index cache, mmap,    *)
(*             madvise, the two timed loops, munmap) on a scaled array.    *)
(***************************************************************************)
EXTENDS Integers, Sequences, FiniteSets, TLC

\* ---------------------------------------------------------------- bounds
\* Lines of the seed files of Spec (the file a first call finds).
MaxLines == 3
\* numIndices in Spec ranges over 0..MaxCount.
MaxCount == 2
\* Calls of readIndices in one behaviour of Spec.
MaxCalls == 2
\* Options on one command line, and runs of main in one behaviour of MainSpec.
MaxArgs == 2
MaxRuns == 2
\* Bytes that stand for one GiB in MainSpec (the source has 1024^3). Every
\* endIdx of MainSpec is then below FreshGap, so the freshness test of
\* readIndices rejects no file there; Spec calls it with a wider endIdx.
ScaledGiB == 8

\* ------------------------------------------------------- program constants
\* The freshness gap of readIndices: (endIdx - maxIdx) > 10000000.
FreshGap == 10000000
\* usage(): "max 128Gib"; main: num > 128.
MaxGiB == 128
\* Default size of the array in GiB: 32U*1024UL*1024UL*1024UL.
DefaultGiB == 32
\* sizeof(double)
SizeofDouble == 8
\* array[i] = 1e-9 * double(i % 79)
InitModulus == 79

\* ------------------------------------------------------------- text lines
\* A line of the file is the sequence of its characters, the '\n' left out.
Digits == <<"0", "1", "2", "3", "4", "5", "6", "7", "8", "9">>

IsDigit(c) == \E d \in 1..10 : Digits[d] = c

DigitVal(c) == (CHOOSE d \in 1..10 : Digits[d] = c) - 1

\* fprintf(fd, "%lu\n", idx): the decimal digits of idx.
RECURSIVE FmtLu(_)
FmtLu(n) ==
    IF n < 10 THEN <<Digits[n + 1]>>
    ELSE Append(FmtLu(n \div 10), Digits[(n % 10) + 1])

RECURSIVE DigitCount(_)
DigitCount(s) ==
    IF s = <<>> \/ ~IsDigit(Head(s)) THEN 0 ELSE 1 + DigitCount(Tail(s))

RECURSIVE DigitsValue(_, _)
DigitsValue(s, acc) ==
    IF s = <<>> THEN acc
    ELSE DigitsValue(Tail(s), acc * 10 + DigitVal(Head(s)))

\* strtol(buf, &endPtr, 10) on a line without leading white space: an optional
\* sign, then the longest run of digits. val is the value returned, rest is
\* what endPtr points at up to the '\n'. Without a digit nothing is converted:
\* the value is 0 and endPtr is buf.
StrToL(buf) ==
    LET sign == buf # <<>> /\ Head(buf) \in {"-", "+"}
        body == IF sign THEN Tail(buf) ELSE buf
        n    == DigitCount(body)
        v    == DigitsValue(SubSeq(body, 1, n), 0)
    IN  IF n = 0 THEN [val |-> 0, rest |-> buf]
        ELSE [val  |-> IF Head(buf) = "-" THEN 0 - v ELSE v,
              rest |-> SubSeq(body, n + 1, Len(body))]

\* if ((*endPtr != '\n' && *endPtr) || idx < 0 || (unsigned long) idx >= endIdx)
InvalidLine(buf, endIdx) ==
    LET p == StrToL(buf)
    IN  p.rest # <<>> \/ p.val < 0 \/ p.val >= endIdx

\* if (indices->size() > numIndices) break;
TooManyAtLeast(ind, numIndices) == Len(ind) >= numIndices

TooMany(ind, numIndices) == Len(ind) > numIndices

Max2(a, b) == IF a > b THEN a ELSE b

\* The while (fgets(...)) loop of readIndices from line k on: the vector, maxIdx
\* and the number of lines fgets returned when the loop is left.
RECURSIVE ReadLoop(_, _, _, _, _, _)
ReadLoop(lines, k, ind, maxIdx, endIdx, numIndices) ==
    IF k > Len(lines) THEN [indices |-> ind, maxIdx |-> maxIdx, got |-> k - 1]
    ELSE IF InvalidLine(lines[k], endIdx)
         THEN [indices |-> ind, maxIdx |-> maxIdx, got |-> k]
    ELSE LET idx  == StrToL(lines[k]).val
             ind2 == Append(ind, idx)
             max2 == Max2(maxIdx, idx)
         IN  IF TooMany(ind2, numIndices)
             THEN [indices |-> ind2, maxIdx |-> max2, got |-> k]
             ELSE ReadLoop(lines, k + 1, ind2, max2, endIdx, numIndices)

\* if ((endIdx - maxIdx) > 10000000 || indices->size() != numIndices)
Rejected(endIdx, maxIdx, ind, numIndices) ==
    (endIdx - maxIdx) > FreshGap \/ Len(ind) # numIndices

\* indices->clear();
ClearSkipped(ind) == ind

Clear(ind) == <<>>

\* fclose(fd) after the read loop, in the log of file operations.
CloseReadMissing(ops) == ops

CloseRead(ops) == Append(ops, "closeR")

\* ------------------------------------------------------------ the file
\* The persisted file: whether it exists, and its lines.
NoFile == [exists |-> FALSE, lines |-> <<>>]

FileOf(ls) == [exists |-> TRUE, lines |-> ls]

\* The return of generateIndices when fopen(CACHED_INDICES_FILE, "w") fails.
OpenWriteFailedIgnored(ind, f, ops) ==
    [ret |-> TRUE, indices |-> ind, file |-> f, ops |-> ops, generated |-> TRUE]

OpenWriteFailed(ind, f, ops) ==
    [ret |-> FALSE, indices |-> ind, file |-> f, ops |-> ops, generated |-> TRUE]

\* generateIndices(indices, endIdx, numIndices): draws are the numIndices
\* values dist(rng) returns, canWrite whether fopen(.., "w") succeeds.
generateIndices(ind, endIdx, numIndices, draws, canWrite, f, ops) ==
    IF ~canWrite THEN OpenWriteFailed(ind, f, ops)
    ELSE [ret       |-> TRUE,
          indices   |-> ind \o draws,
          file      |-> FileOf([i \in 1..numIndices |-> FmtLu(draws[i])]),
          ops       |-> ops \o <<"openW", "closeW">>,
          generated |-> TRUE]

\* readIndices(indices, endIdx, numIndices) on file f: canRead and canWrite
\* say whether the process may open the file for reading and for writing.
readIndices(ind, endIdx, numIndices, draws, canRead, canWrite, f) ==
    IF ~(f.exists /\ canRead)
    THEN generateIndices(ind, endIdx, numIndices, draws, canWrite, f, <<>>)
    ELSE LET r   == ReadLoop(f.lines, 1, ind, 0, endIdx, numIndices)
             ops == CloseRead(<<"openR">>)
         IN  IF Rejected(endIdx, r.maxIdx, r.indices, numIndices)
             THEN generateIndices(Clear(r.indices), endIdx, numIndices, draws,
                                  canWrite, f, ops)
             ELSE [ret |-> TRUE, indices |-> r.indices, file |-> f,
                   ops |-> ops, generated |-> FALSE]

\* ---------------------------------------------------------------- state
VARIABLES
    file,        \* the persisted file /tmp/mem_bench_indices
    rdOK,        \* the process may open an existing file for reading
    wrOK,        \* the process may open (create, truncate) the file for writing
    charSigned,  \* whether plain char is signed in this build (char opt)
    thpEnabled,  \* /sys/kernel/mm/transparent_hugepage/enabled is not [never]
    pc,          \* where the run is
    argv,        \* the command line of the run
    hugetlb,
    thp,
    arraySize,
    endIdx,
    numIndices,
    indices,     \* vector<unsigned long> indices
    ret,         \* what readIndices returned
    generated,   \* generateIndices was called in this run
    fileOps,     \* opens and closes of the file in this run, in order
    found,       \* the file as this run's readIndices found it
    live,        \* mappings of this process that are mapped
    mmapCalls,   \* successful mmap calls of this run
    munmapCalls, \* munmap calls of this run
    array,       \* the doubles of the mapping, in units of 1e-9
    result,      \* double result, in units of 1e-9
    exitCode,
    runs,        \* runs (calls, in Spec) finished so far
    prev         \* what the previous run (call) left

envVars == <<rdOK, wrOK, charSigned, thpEnabled>>

cfgVars == <<argv, hugetlb, thp, arraySize, endIdx, numIndices>>

idxVars == <<indices, ret, generated, fileOps, found>>

memVars == <<live, mmapCalls, munmapCalls, array, result>>

vars == <<file, envVars, pc, cfgVars, idxVars, memVars, exitCode, runs, prev>>

\* Values dist(rng) is sampled at: the two ends of [0, endIdx - 1].
DrawSet(e) == {v \in {0, e - 1} : v >= 0 /\ v < e}

DrawSeqs(e, n) == [1..n -> DrawSet(e)]

NoArgv == [opts |-> <<>>, extra |-> FALSE]

NoPrev ==
    [any |-> FALSE, ret |-> FALSE, generated |-> FALSE, indices |-> <<>>,
     endIdx |-> 0, numIndices |-> 0, hugetlb |-> FALSE, thp |-> FALSE,
     array |-> <<>>, result |-> 0, exitCode |-> 0]

\* What a finished run leaves for the next one to be compared with.
Record ==
    [any |-> TRUE, ret |-> ret, generated |-> generated, indices |-> indices,
     endIdx |-> endIdx, numIndices |-> numIndices, hugetlb |-> hugetlb,
     thp |-> thp, array |-> array, result |-> result, exitCode |-> exitCode]

\* ------------------------------------------- Spec: readIndices on its own
\* Lines of the seed files: numbers, a negative number, a number followed by
\* a letter, a line without a digit, and an empty line.
SeedLines ==
    {FmtLu(0), FmtLu(1), FmtLu(2), <<"-", "2">>, <<"2", "x">>, <<"x">>, <<>>}

SeedFiles ==
    {NoFile} \cup
    {FileOf(ls) : ls \in UNION {[1..n -> SeedLines] : n \in 0..MaxLines}}

\* endIdx of the calls: the smallest array, and one wider than the freshness gap.
Bounds == {1, FreshGap + 2}

Init ==
    /\ file \in SeedFiles
    /\ rdOK \in BOOLEAN
    /\ wrOK \in BOOLEAN
    /\ charSigned = TRUE
    /\ thpEnabled = TRUE
    /\ pc = "call"
    /\ argv = NoArgv
    /\ hugetlb = FALSE
    /\ thp = FALSE
    /\ endIdx \in Bounds
    /\ arraySize = endIdx * SizeofDouble
    /\ numIndices \in 0..MaxCount
    /\ indices = <<>>
    /\ ret = FALSE
    /\ generated = FALSE
    /\ fileOps = <<>>
    /\ found = NoFile
    /\ live = 0
    /\ mmapCalls = 0
    /\ munmapCalls = 0
    /\ array = <<>>
    /\ result = 0
    /\ exitCode = 0
    /\ runs = 0
    /\ prev = NoPrev

\* One call readIndices(&indices, endIdx, numIndices) with an empty vector.
CallReadIndices ==
    /\ pc = "call"
    /\ \E draws \in DrawSeqs(endIdx, numIndices) :
         LET r == readIndices(<<>>, endIdx, numIndices, draws, rdOK, wrOK, file)
         IN  /\ indices' = r.indices
             /\ ret' = r.ret
             /\ generated' = r.generated
             /\ fileOps' = r.ops
             /\ file' = r.file
    /\ found' = file
    /\ pc' = "returned"
    /\ UNCHANGED <<envVars, cfgVars, memVars, exitCode, runs, prev>>

\* The caller is done with the vector; the next call starts from an empty one,
\* on the file as the previous call left it.
NextCall ==
    /\ pc = "returned"
    /\ runs + 1 < MaxCalls
    /\ prev' = Record
    /\ runs' = runs + 1
    /\ indices' = <<>>
    /\ ret' = FALSE
    /\ generated' = FALSE
    /\ fileOps' = <<>>
    /\ found' = NoFile
    /\ pc' = "call"
    /\ UNCHANGED <<file, envVars, cfgVars, memVars, exitCode>>

Next == CallReadIndices \/ NextCall

Spec == Init /\ [][Next]_vars

\* ------------------------------------------------------ MainSpec: main
\* One option as getopt(argc, argv, "hmts:") returns it: the option character
\* ("?" for an unknown one) and, for -s, what strtoul(optarg, &endPtr, 0)
\* makes of its argument: the number, and whether characters are left over.
Opt(c, n, j) == [opt |-> c, num |-> n, junk |-> j]

OptTokens ==
    {Opt("h", 0, FALSE), Opt("t", 0, FALSE), Opt("m", 0, FALSE),
     Opt("?", 0, FALSE), Opt("s", 100, FALSE), Opt("s", MaxGiB + 1, FALSE),
     Opt("s", 100, TRUE)}

\* A command line: its options in order, and whether an argument that is no
\* option is left after them (optind != argc).
Argvs ==
    {[opts |-> o, extra |-> e] :
        o \in UNION {[1..n -> OptTokens] : n \in 0..MaxArgs}, e \in BOOLEAN}

\* unsigned long arraySize = 32U*1024UL*1024UL*1024UL; endIdx = arraySize / sizeof(double)
DefaultArraySize == DefaultGiB * ScaledGiB

EndIdxOf(size) == size \div SizeofDouble

\* unsigned long numIndices = endIdx * 0.03;
NumIndicesOf(e) == (e * 3) \div 100

\* The while ((opt = getopt(...)) != -1) loop from option k on. exit is 0 while
\* main goes on, else the exit status. When char is unsigned, opt is 255 after
\* the last option, the loop is not left and the default case calls usage().
RECURSIVE GetoptLoop(_, _, _, _, _)
GetoptLoop(opts, k, st, signed, thpOn) ==
    IF k > Len(opts)
    THEN IF signed THEN st ELSE [st EXCEPT !.exit = 1]
    ELSE LET o == opts[k]
         IN  CASE o.opt = "h" -> [st EXCEPT !.exit = 1]
               [] o.opt = "t" ->
                    GetoptLoop(opts, k + 1, [st EXCEPT !.hugetlb = TRUE],
                               signed, thpOn)
               [] o.opt = "m" ->
                    IF thpOn
                    THEN GetoptLoop(opts, k + 1, [st EXCEPT !.thp = TRUE],
                                    signed, thpOn)
                    ELSE [st EXCEPT !.thp = TRUE, !.exit = 1]
               [] o.opt = "s" ->
                    IF o.junk \/ o.num > MaxGiB
                    THEN [st EXCEPT !.exit = 1]
                    ELSE GetoptLoop(opts, k + 1,
                             [st EXCEPT !.arraySize = o.num * ScaledGiB,
                                        !.endIdx = EndIdxOf(o.num * ScaledGiB)],
                             signed, thpOn)
               [] OTHER -> [st EXCEPT !.exit = 1]

\* if ((hugetlb & thp) || optind != argc) usage(argv[0]);
ConflictModesOnly(h, t, extra) == h /\ t

Conflict(h, t, extra) == (h /\ t) \/ extra

\* if (!readIndices(&indices, endIdx, numIndices)) { ...; return 1; }
AfterIndices(r) == IF r THEN "mmap" ELSE "exited"

\* array[i] = 1e-9 * double(i % 79), in units of 1e-9.
InitValueNoModulus(i) == i

InitValue(i) == i % InitModulus

\* for (unsigned long u : indices) result += array[u];
RECURSIVE Accumulate(_, _, _)
Accumulate(arr, ind, acc) ==
    IF ind = <<>> THEN acc
    ELSE Accumulate(arr, Tail(ind), acc + arr[Head(ind) + 1])

\* Files a first run of main may find: none, one line that is no index, and one
\* valid index.
MainFiles == {NoFile, FileOf(<< <<"2", "x">> >>), FileOf(<<FmtLu(0)>>)}

MainInit ==
    /\ file \in MainFiles
    /\ rdOK \in BOOLEAN
    /\ wrOK \in BOOLEAN
    /\ charSigned \in BOOLEAN
    /\ thpEnabled \in BOOLEAN
    /\ pc = "start"
    /\ argv = NoArgv
    /\ hugetlb = FALSE
    /\ thp = FALSE
    /\ arraySize = DefaultArraySize
    /\ endIdx = EndIdxOf(DefaultArraySize)
    /\ numIndices = 0
    /\ indices = <<>>
    /\ ret = FALSE
    /\ generated = FALSE
    /\ fileOps = <<>>
    /\ found = NoFile
    /\ live = 0
    /\ mmapCalls = 0
    /\ munmapCalls = 0
    /\ array = <<>>
    /\ result = 0
    /\ exitCode = 0
    /\ runs = 0
    /\ prev = NoPrev

\* main from its first line to "Getting the indices": the getopt loop, the
\* check of the modes and of the arguments left, and numIndices.
ParseOptions ==
    /\ pc = "start"
    /\ \E a \in Argvs :
         LET st0 == [hugetlb |-> FALSE, thp |-> FALSE, arraySize |-> arraySize,
                     endIdx |-> endIdx, exit |-> 0]
             st  == GetoptLoop(a.opts, 1, st0, charSigned, thpEnabled)
             bad == st.exit # 0 \/ Conflict(st.hugetlb, st.thp, a.extra)
         IN  /\ argv' = a
             /\ hugetlb' = st.hugetlb
             /\ thp' = st.thp
             /\ arraySize' = st.arraySize
             /\ endIdx' = st.endIdx
             /\ numIndices' = IF bad THEN 0 ELSE NumIndicesOf(st.endIdx)
             /\ pc' = IF bad THEN "exited" ELSE "indices"
             /\ exitCode' = IF bad THEN 1 ELSE 0
    /\ UNCHANGED <<file, envVars, idxVars, memVars, runs, prev>>

\* if (!readIndices(&indices, endIdx, numIndices)) return 1;
GetIndices ==
    /\ pc = "indices"
    /\ \E draws \in DrawSeqs(endIdx, numIndices) :
         LET r == readIndices(indices, endIdx, numIndices, draws, rdOK, wrOK, file)
         IN  /\ indices' = r.indices
             /\ ret' = r.ret
             /\ generated' = r.generated
             /\ fileOps' = r.ops
             /\ file' = r.file
             /\ pc' = AfterIndices(r.ret)
             /\ exitCode' = IF AfterIndices(r.ret) = "exited" THEN 1 ELSE 0
    /\ found' = file
    /\ UNCHANGED <<envVars, cfgVars, memVars, runs, prev>>

\* mmap(nullptr, arraySize, ...): an anonymous mapping, zero filled, or
\* MAP_FAILED and return 1.
Mmap ==
    /\ pc = "mmap"
    /\ \E ok \in BOOLEAN :
         IF ok
         THEN /\ live' = live + 1
              /\ mmapCalls' = mmapCalls + 1
              /\ array' = [i \in 1..endIdx |-> 0]
              /\ pc' = "madvise"
              /\ UNCHANGED exitCode
         ELSE /\ pc' = "exited"
              /\ exitCode' = 1
              /\ UNCHANGED <<live, mmapCalls, array>>
    /\ UNCHANGED <<file, envVars, cfgVars, idxVars, munmapCalls, result, runs, prev>>

\* if (thp) { if (madvise(mem, arraySize, MADV_HUGEPAGE)) return 1; }
Madvise ==
    /\ pc = "madvise"
    /\ \E ok \in BOOLEAN :
         IF thp /\ ~ok
         THEN pc' = "exited" /\ exitCode' = 1
         ELSE pc' = "init" /\ UNCHANGED exitCode
    /\ UNCHANGED <<file, envVars, cfgVars, idxVars, memVars, runs, prev>>

\* for (unsigned long i = 0; i < endIdx; ++i) array[i] = 1e-9 * double(i % 79);
InitArray ==
    /\ pc = "init"
    /\ array' = [i \in 1..endIdx |-> InitValue(i - 1)]
    /\ pc' = "access"
    /\ UNCHANGED <<file, envVars, cfgVars, idxVars, live, mmapCalls,
                   munmapCalls, result, exitCode, runs, prev>>

\* double result = 0.0; for (unsigned long u : indices) result += array[u];
Access ==
    /\ pc = "access"
    /\ result' = Accumulate(array, indices, 0)
    /\ pc' = "munmap"
    /\ UNCHANGED <<file, envVars, cfgVars, idxVars, live, mmapCalls,
                   munmapCalls, array, exitCode, runs, prev>>

\* munmap(mem, arraySize); return 0; (array keeps what the mapping held, for
\* the comparison between runs.)
Munmap ==
    /\ pc = "munmap"
    /\ live' = live - 1
    /\ munmapCalls' = munmapCalls + 1
    /\ pc' = "exited"
    /\ exitCode' = 0
    /\ UNCHANGED <<file, envVars, cfgVars, idxVars, mmapCalls, array, result,
                   runs, prev>>

\* The process is gone (its mappings with it) and the benchmark is started
\* again; prev keeps the last run that ran to its end.
Restart ==
    /\ pc = "exited"
    /\ runs + 1 < MaxRuns
    /\ prev' = IF exitCode = 0 THEN Record ELSE prev
    /\ runs' = runs + 1
    /\ pc' = "start"
    /\ argv' = NoArgv
    /\ hugetlb' = FALSE
    /\ thp' = FALSE
    /\ arraySize' = DefaultArraySize
    /\ endIdx' = EndIdxOf(DefaultArraySize)
    /\ numIndices' = 0
    /\ indices' = <<>>
    /\ ret' = FALSE
    /\ generated' = FALSE
    /\ fileOps' = <<>>
    /\ found' = NoFile
    /\ live' = 0
    /\ mmapCalls' = 0
    /\ munmapCalls' = 0
    /\ array' = <<>>
    /\ result' = 0
    /\ exitCode' = 0
    /\ UNCHANGED <<file, envVars>>

MainNext ==
    \/ ParseOptions
    \/ GetIndices
    \/ Mmap
    \/ Madvise
    \/ InitArray
    \/ Access
    \/ Munmap
    \/ Restart

MainSpec == MainInit /\ [][MainNext]_vars

\* ------------------------------------------------ claims on readIndices
\* The largest element of a sequence of indices, 0 for the empty one (as
\* maxIdx starts at 0).
RECURSIVE SeqMax(_)
SeqMax(q) == IF q = <<>> THEN 0 ELSE Max2(Head(q), SeqMax(Tail(q)))

\* The call that has just returned found a file it could open for reading.
ReadFound == pc = "returned" /\ found.exists /\ rdOK

\* Every line of the file found is a valid index for endIdx.
FoundAllValid == \A k \in 1..Len(found.lines) : ~InvalidLine(found.lines[k], endIdx)

\* Every line of the file found is the decimal numeral of a valid index.
FoundAllNumerals ==
    \A k \in 1..Len(found.lines) :
        /\ ~InvalidLine(found.lines[k], endIdx)
        /\ FmtLu(StrToL(found.lines[k]).val) = found.lines[k]

FoundValues == [k \in 1..Len(found.lines) |-> StrToL(found.lines[k]).val]

\* C1: when readIndices is called twice in succession on the same file with
\* the same (endIdx, numIndices), the second call does not call
\* generateIndices and returns the sequence the first call returned. (Stated
\* for numIndices >= 1, a first call that returned true and a file the
\* process can open for reading, where the cache is what decides.)
C1_SecondCallReplays ==
    (pc = "returned" /\ prev.any /\ prev.ret /\ rdOK /\ numIndices >= 1)
        => (ret /\ ~generated /\ indices = prev.indices)

\* C2: a file readIndices can open that holds an invalid line, at whatever
\* position, is not accepted: generateIndices is called.
C2_CorruptFileRegenerated ==
    (ReadFound /\ ~FoundAllValid /\ numIndices >= 1) => generated

\* C4: a file of indices whose largest is more than 10,000,000 below
\* endIdx - 1 is regenerated, and the largest index of the file written is
\* within 10,000,000 of endIdx. (Stated for numIndices >= 1, a file of decimal
\* numerals only, and a file that opens for writing.)
C4_StaleFileRegeneratedFresh ==
    (ReadFound /\ found.lines # <<>> /\ FoundAllNumerals /\ numIndices >= 1
       /\ SeqMax(FoundValues) < (endIdx - 1) - FreshGap /\ wrOK)
        => /\ generated
           /\ ret
           /\ file.exists
           /\ endIdx - SeqMax([k \in 1..Len(file.lines) |->
                                  StrToL(file.lines[k]).val]) <= FreshGap

\* C5: whenever readIndices returns true, called with an empty vector, the
\* vector holds exactly numIndices elements, each in [0, endIdx).
C5_WellFormedIndexSet ==
    (pc = "returned" /\ ret)
        => /\ Len(indices) = numIndices
           /\ \A i \in 1..Len(indices) : indices[i] >= 0 /\ indices[i] < endIdx

\* C5 witness: a file was read in part, rejected, and the vector regenerated.
C5_Witness ==
    /\ ReadFound /\ ret /\ generated /\ numIndices >= 1
    /\ found.lines # <<>> /\ ~InvalidLine(found.lines[1], endIdx)

\* C10: readIndices returns what it read without regenerating only if it read
\* exactly numIndices indices and endIdx - maxIdx <= 10,000,000, and then the
\* vector is the first numIndices lines of the file in file order; a file of
\* valid lines only with fewer or more than numIndices lines is regenerated.
C10_AcceptanceCriterion ==
    ReadFound =>
        /\ ~generated =>
             /\ ret
             /\ Len(indices) = numIndices
             /\ Len(found.lines) >= numIndices
             /\ \A i \in 1..numIndices :
                  /\ ~InvalidLine(found.lines[i], endIdx)
                  /\ indices[i] = StrToL(found.lines[i]).val
             /\ endIdx - SeqMax(indices) <= FreshGap
        /\ (FoundAllValid /\ Len(found.lines) # numIndices) => generated

\* C10 witness: a file of numIndices fresh lines, wider than the gap, accepted.
C10_Witness ==
    /\ ReadFound /\ ~generated /\ numIndices >= 1 /\ endIdx > FreshGap
    /\ Len(found.lines) = numIndices

\* -------------------------------------------------------- claims on main
\* The formulas below are read on MainSpec.

\* C3: on every way out of main once the region is mapped, the region has been
\* unmapped exactly once; and there is never more than one live mapping.
C3_ReleasedOnEveryExit ==
    /\ live <= 1
    /\ (pc = "exited" /\ mmapCalls > 0) => (munmapCalls = 1 /\ live = 0)

\* What the command line asks for, read off argv alone.
AsksBothModes ==
    /\ \E i \in 1..Len(argv.opts) : argv.opts[i].opt = "t"
    /\ \E j \in 1..Len(argv.opts) : argv.opts[j].opt = "m"

AsksTooBig ==
    \E i \in 1..Len(argv.opts) :
        argv.opts[i].opt = "s" /\ argv.opts[i].num > MaxGiB

\* C6: a run asked for both huge-page modes, or for more than 128 GiB, or with
\* an argument left unparsed, exits non-zero without mmap having been called
\* and without the index file having been opened.
C6_RejectedBeforeMapping ==
    (pc # "start" /\ (AsksBothModes \/ AsksTooBig \/ argv.extra))
        => /\ pc = "exited"
           /\ exitCode # 0
           /\ mmapCalls = 0
           /\ live = 0
           /\ fileOps = <<>>
           /\ ~generated

\* C6 witness: -t -m on a build and a system where nothing else rejects the run.
C6_Witness ==
    /\ pc = "exited" /\ AsksBothModes /\ ~AsksTooBig /\ ~argv.extra
    /\ charSigned /\ thpEnabled /\ exitCode = 1

IsOpen(op) == op \in {"openR", "openW"}

\* C7: no run opens the file more than once.
C7_OpenedAtMostOnce == Len(SelectSeq(fileOps, IsOpen)) <= 1

\* C7 as amended: a run opens the file at most once for reading and at most
\* once for writing, the read closed before the rewrite opens.
C7_ReadThenRewrite ==
    fileOps \in {<<>>, <<"openR", "closeR">>, <<"openW", "closeW">>,
                 <<"openR", "closeR", "openW", "closeW">>}

\* C7 witness: a run that read the file, rejected it and rewrote it.
C7_Witness ==
    /\ fileOps = <<"openR", "closeR", "openW", "closeW">>
    /\ pc = "exited" /\ exitCode = 0

\* readIndices has been called in this run.
IndicesCalled == generated \/ fileOps # <<>>

\* C8: readIndices returns true whenever the file opens for reading or opens
\* for writing.
C8_FailsOnlyIfNeitherOpens ==
    (IndicesCalled /\ ((found.exists /\ rdOK) \/ wrOK)) => ret

\* C8 as amended: readIndices returns false exactly when it has to generate
\* (file unreadable, or read and rejected) and the file does not open for
\* writing; main then exits non-zero with nothing mapped.
C8_FailsOnlyIfRewriteFails ==
    IndicesCalled =>
        /\ ret <=> ~(generated /\ ~wrOK)
        /\ ~ret => /\ pc = "exited"
                   /\ exitCode # 0
                   /\ mmapCalls = 0
                   /\ live = 0

\* C8 witness: a file that was read and rejected, and could not be rewritten.
C8_Witness ==
    /\ IndicesCalled /\ ~ret /\ found.exists /\ rdOK /\ ~wrOK
    /\ pc = "exited" /\ fileOps = <<"openR", "closeR">>

\* The sum of 1e-9 * (u mod 79) over a sequence of indices, in units of 1e-9.
RECURSIVE SumMod(_)
SumMod(q) == IF q = <<>> THEN 0 ELSE (Head(q) % 79) + SumMod(Tail(q))

\* This run ran both loops, and so did an earlier run with the same endIdx,
\* numIndices and indices under another page mode.
SameRunOtherMode ==
    /\ pc \in {"munmap", "exited"} /\ mmapCalls = 1 /\ exitCode = 0
    /\ prev.any /\ prev.exitCode = 0
    /\ prev.endIdx = endIdx /\ prev.numIndices = numIndices
    /\ prev.indices = indices
    /\ <<prev.hugetlb, prev.thp>> # <<hugetlb, thp>>

\* C9: two completed runs on the same indices under different page modes leave
\* the same array (slot i holds i mod 79) and the same accumulated result (the
\* sum of array[u] over the indices).
C9_PageModeIndependent ==
    SameRunOtherMode =>
        /\ array = [i \in 1..endIdx |-> (i - 1) % 79]
        /\ array = prev.array
        /\ result = SumMod(indices)
        /\ result = prev.result

\* C9 witness: such a pair of runs whose indices reach past slot 79.
C9_Witness ==
    /\ SameRunOtherMode /\ pc = "exited" /\ numIndices >= 1
    /\ \E i \in 1..Len(indices) : indices[i] >= 79

====
